---- MODULE Spec2Model ----
(***************************************************************************)
(* A model of the a2a-flightops decision endpoints: the cost, compliance   *)
(* and ops agents (agents/views.py, agents/services.py), the MCP weather   *)
(* tool (agents/mcp_views.py, agents/mcp_weather_service.py) and the call  *)
(* log (agents/models.py).                                                 *)
(*                                                                         *)
(* Values are modelled as tagged records so that Python's dynamic typing   *)
(* (a JSON null where a string is expected, a string where a number is     *)
(* expected) is visible to the model:                                      *)
(*   None            [t |-> "null"]                                        *)
(*   bool            [t |-> "bool",  b |-> TRUE]                           *)
(*   int             [t |-> "int",   n |-> 42]                             *)
(*   float           [t |-> "float", h |-> 65]     (hundredths: 0.65)      *)
(*   str             [t |-> "str",   s |-> "text"] (opaque text)           *)
(*   str             [t |-> "str",   c |-> <<"D","E","L">>] (characters)   *)
(*   list            [t |-> "list",  xs |-> <<...>>]                       *)
(*   dict            [t |-> "obj",   o |-> [key |-> value, ...]]           *)
(***************************************************************************)
EXTENDS Integers, Sequences, FiniteSets, TLC

VARIABLES
    config,   \* process configuration: the two optional API credentials
    log,      \* the AgentCallLog table, oldest entry first
    last,     \* the most recent call: its input, what it contacted, its outcome
    pending   \* the call a unit behaviour is about to make (unit specification);
              \* the request of each worker (concurrent specification)

vars == <<config, log, last, pending>>

(***************************************************************************)
(* Python values                                                           *)
(***************************************************************************)
JNull == [t |-> "null"]
JBool(b) == [t |-> "bool", b |-> b]
JInt(n) == [t |-> "int", n |-> n]
JFloat(h) == [t |-> "float", h |-> h]
JStr(s) == [t |-> "str", s |-> s]
JChars(c) == [t |-> "str", c |-> c]
JList(xs) == [t |-> "list", xs |-> xs]
JObj(o) == [t |-> "obj", o |-> o]
EmptyDict == [k \in {} |-> JNull]

\* dict.get(key, default)
DictGet(o, key, default) == IF key \in DOMAIN o THEN o[key] ELSE default

\* The dict `full` restricted to the keys in `keys` (a payload with keys left out).
Restrict(full, keys) == [k \in keys |-> full[k]]

\* Python truthiness: None, False, 0, 0.0, "", [] and {} are falsy.
Truthy(v) ==
    CASE v.t = "null" -> FALSE
      [] v.t = "bool" -> v.b
      [] v.t = "int" -> v.n # 0
      [] v.t = "float" -> v.h # 0
      [] v.t = "str" -> IF "c" \in DOMAIN v THEN v.c # <<>> ELSE v.s # ""
      [] v.t = "list" -> v.xs # <<>>
      [] v.t = "obj" -> DOMAIN v.o # {}

\* A call that returned `val`, and a call that raised the exception `exc`.
Ok(val) == [exc |-> "none", val |-> val]
Raise(exc) == [exc |-> exc]

\* `v` evaluated once and handed to F: a local variable.
Let(v, F(_)) == CHOOSE out \in {F(x) : x \in {v}} : TRUE

\* The statements after one that may raise: F runs on the value of `r` unless
\* `r` raised, and then the exception propagates.
Bind(r, F(_)) ==
    CHOOSE out \in {(IF x.exc # "none" THEN Raise(x.exc) ELSE F(x.val)) : x \in {r}} : TRUE

\* float("..."): the numeric texts the model uses, in hundredths.
ParseFloatText(s) ==
    CASE s = "0.8" -> Ok(JFloat(80))
      [] s = "1.5" -> Ok(JFloat(150))
      [] OTHER -> Raise("ValueError")

\* float(v): numbers and booleans convert, numeric text is parsed, other text is
\* a ValueError and every other type a TypeError.
PyFloat(v) ==
    CASE v.t = "float" -> Ok(v)
      [] v.t = "int" -> Ok(JFloat(100 * v.n))
      [] v.t = "bool" -> Ok(JFloat(IF v.b THEN 100 ELSE 0))
      [] v.t = "str" -> IF "s" \in DOMAIN v THEN ParseFloatText(v.s) ELSE Raise("ValueError")
      [] OTHER -> Raise("TypeError")

(***************************************************************************)
(* The text of a model reply, as a sequence of tokens: whitespace, the     *)
(* code fences, text that is no JSON, and one JSON document.               *)
(***************************************************************************)
Ws == [k |-> "ws"]
FenceJson == [k |-> "fence_json"]
Fence == [k |-> "fence"]
Junk == [k |-> "junk"]
Doc(v) == [k |-> "json", v |-> v]

RECURSIVE LStrip(_)
LStrip(text) ==
    IF text # <<>> /\ Head(text) = Ws THEN LStrip(Tail(text)) ELSE text

RECURSIVE RStrip(_)
RStrip(text) ==
    IF text # <<>> /\ text[Len(text)] = Ws
    THEN RStrip(SubSeq(text, 1, Len(text) - 1))
    ELSE text

\* str.strip()
Strip(text) == RStrip(LStrip(text))

\* services.py 68-75: remove a leading json code fence, then a leading plain
\* fence, then a trailing fence, then strip. A second leading json fence loses
\* only its three backticks, which leaves the word "json" in front of the rest.
CleanResponseText(raw) ==
    LET t0 == Strip(raw)
        t1 == IF t0 # <<>> /\ Head(t0) = FenceJson THEN Tail(t0) ELSE t0
        t2 == IF t1 # <<>> /\ Head(t1) = Fence THEN Tail(t1)
              ELSE IF t1 # <<>> /\ Head(t1) = FenceJson THEN <<Junk>> \o Tail(t1)
              ELSE t1
        t3 == IF t2 # <<>> /\ t2[Len(t2)] = Fence
              THEN SubSeq(t2, 1, Len(t2) - 1)
              ELSE t2
    IN  Strip(t3)

\* json.loads(text): the text must be exactly one JSON document.
JsonLoads(text) ==
    IF Len(text) = 1 /\ text[1].k = "json"
    THEN Ok(text[1].v)
    ELSE Raise("JSONDecodeError")

(***************************************************************************)
(* agents/services.py                                                      *)
(***************************************************************************)
GeminiAgentName == "Gemini-Cost-Agent"
ComplianceAgentName == "Compliance-Agent"
OpsAgentName == "Ops-Agent"

\* The delay from which the cost rule accommodates everybody, and the head
\* count below which it does.
LongDelayHours == 4
SmallGroupSize == 50
\* The regulatory threshold of the compliance rule.
RegulatoryThresholdHours == 2

\* A cost rule that accommodates everybody only when there are no VIPs to
\* prioritize.
GeminiCostService_get_fallback_response_vip(delay_hours, total_passengers, vip_passengers) ==
    IF (delay_hours >= 4 \/ total_passengers < 50) /\ vip_passengers = 0
    THEN [agent |-> JStr(GeminiAgentName),
          recommendation |-> JStr("HOTEL_FOR_ALL"),
          reason |-> JStr("Small passenger count or long delay justifies full accommodation"),
          confidence |-> JFloat(65)]
    ELSE [agent |-> JStr(GeminiAgentName),
          recommendation |-> JStr("LIMIT_HOTEL"),
          reason |-> JStr("Hotel for all passengers is expensive for this delay duration"),
          confidence |-> JFloat(70)]

GeminiCostService_get_fallback_response(delay_hours, total_passengers, vip_passengers) ==
    IF delay_hours >= LongDelayHours \/ total_passengers < SmallGroupSize
    THEN [agent |-> JStr(GeminiAgentName),
          recommendation |-> JStr("HOTEL_FOR_ALL"),
          reason |-> JStr("Small passenger count or long delay justifies full accommodation"),
          confidence |-> JFloat(65)]
    ELSE [agent |-> JStr(GeminiAgentName),
          recommendation |-> JStr("LIMIT_HOTEL"),
          reason |-> JStr("Hotel for all passengers is expensive for this delay duration"),
          confidence |-> JFloat(70)]

\* The three model names tried in turn (services.py 43-49).
ModelNames == <<"gemini-2.5-flash", "gemini-pro-latest", "gemini-pro">>

\* A response built from the reply without the agent name.
GeminiResponseWithoutAgent(gemini_response) ==
    IF gemini_response.t # "obj"
    THEN Raise("AttributeError")
    ELSE Ok([recommendation |-> DictGet(gemini_response.o, "recommendation",
                                        JStr("LIMIT_HOTEL")),
             reason |-> DictGet(gemini_response.o, "reason",
                                JStr("Cost optimization analysis")),
             confidence |-> JFloat(75)])

\* services.py 78-96: the parsed reply turned into the response. A reply that is
\* no dict has no .get (AttributeError); float() may raise.
GeminiResponseFromJson(gemini_response) ==
    IF gemini_response.t # "obj"
    THEN Raise("AttributeError")
    ELSE Bind(PyFloat(DictGet(gemini_response.o, "confidence", JFloat(75))),
              LAMBDA confidence :
                  Ok([agent |-> JStr(GeminiAgentName),
                      recommendation |-> DictGet(gemini_response.o, "recommendation",
                                                 JStr("LIMIT_HOTEL")),
                      reason |-> DictGet(gemini_response.o, "reason",
                                         JStr("Cost optimization analysis")),
                      confidence |-> confidence]))

\* A try block that calls generate_content a second time when it raises.
GeminiAdvisor_retrying(llm) ==
    IF llm.ctor_failures >= Len(ModelNames)
    THEN [exc |-> "Exception", llm_calls |-> 0]
    ELSE IF llm.gen.kind = "raise"
    THEN [exc |-> "Exception", llm_calls |-> 2]
    ELSE [exc |-> "Exception", llm_calls |-> 1]

\* What the try block of get_recommendation (services.py 40-96) does with the
\* outcome `llm` of the generative-model library: llm.ctor_failures of the three
\* model constructors raise, and generate_content raises or returns a text.
GeminiAdvisor(llm) ==
    IF llm.ctor_failures >= Len(ModelNames)
    THEN [exc |-> "Exception", llm_calls |-> 0]
    ELSE IF llm.gen.kind = "raise"
    THEN [exc |-> "Exception", llm_calls |-> 1]
    ELSE Let(Bind(JsonLoads(CleanResponseText(llm.gen.text)),
                  LAMBDA gemini_response : GeminiResponseFromJson(gemini_response)),
             LAMBDA built :
                 IF built.exc # "none"
                 THEN [exc |-> built.exc, llm_calls |-> 1]
                 ELSE [exc |-> "none", val |-> built.val, llm_calls |-> 1])

\* An exception the handlers `except json.JSONDecodeError` and `except Exception`
\* of get_recommendation catch (services.py 98-110): every Exception.
GeminiCaught(exc) == TRUE

\* GeminiCostService.get_recommendation: the outcome of one call.
\*   raised: an exception left the service;  value: the dict returned;
\*   path: which code produced it;  llm_calls, rule_calls: what was invoked.
GeminiCostService_get_recommendation(args, api_key, llm) ==
    IF ~api_key
    THEN [raised |-> FALSE,
          value |-> GeminiCostService_get_fallback_response(
                        args.delay_hours, args.total_passengers, args.vip_passengers),
          path |-> "fallback", llm_calls |-> 0, rule_calls |-> 1]
    ELSE Let(GeminiAdvisor(llm),
             LAMBDA adv :
                 IF adv.exc = "none"
                 THEN [raised |-> FALSE, value |-> adv.val, path |-> "advisor",
                       llm_calls |-> adv.llm_calls, rule_calls |-> 0]
                 ELSE IF GeminiCaught(adv.exc)
                 THEN [raised |-> FALSE,
                       value |-> GeminiCostService_get_fallback_response(
                                     args.delay_hours, args.total_passengers,
                                     args.vip_passengers),
                       path |-> "fallback", llm_calls |-> adv.llm_calls, rule_calls |-> 1]
                 ELSE [raised |-> TRUE, value |-> EmptyDict, path |-> "error",
                       llm_calls |-> adv.llm_calls, rule_calls |-> 0])

\* A compliance rule whose threshold is exclusive.
ComplianceService_get_rule_exclusive(delay_hours) ==
    IF delay_hours > 2
    THEN [agent |-> JStr(ComplianceAgentName),
          rule |-> JStr("HOTEL_MANDATORY"),
          reason |-> JStr("Delay exceeds regulatory threshold"),
          confidence |-> JFloat(100)]
    ELSE [agent |-> JStr(ComplianceAgentName),
          rule |-> JStr("HOTEL_NOT_REQUIRED"),
          reason |-> JStr("Delay below regulatory threshold"),
          confidence |-> JFloat(100)]

ComplianceService_get_rule(delay_hours) ==
    IF delay_hours >= RegulatoryThresholdHours
    THEN [agent |-> JStr(ComplianceAgentName),
          rule |-> JStr("HOTEL_MANDATORY"),
          reason |-> JStr("Delay exceeds regulatory threshold"),
          confidence |-> JFloat(100)]
    ELSE [agent |-> JStr(ComplianceAgentName),
          rule |-> JStr("HOTEL_NOT_REQUIRED"),
          reason |-> JStr("Delay below regulatory threshold"),
          confidence |-> JFloat(100)]

OpsService_get_feasibility ==
    [agent |-> JStr(OpsAgentName),
     available_seats |-> JInt(42),
     hotel_capacity |-> JStr("LIMITED")]

(***************************************************************************)
(* Text whose characters the code inspects: a sequence of one-character    *)
(* strings.                                                                *)
(***************************************************************************)
LowerLetters == <<"a", "b", "c", "d", "e", "f", "g", "h", "i", "j", "k", "l", "m", "n", "o", "p", "q", "r", "s", "t", "u", "v", "w", "x", "y", "z">>
UpperLetters == <<"A", "B", "C", "D", "E", "F", "G", "H", "I", "J", "K", "L", "M", "N", "O", "P", "Q", "R", "S", "T", "U", "V", "W", "X", "Y", "Z">>
WhitespaceChars == {" ", "\t", "\n"}

UpperChar(ch) ==
    IF \E i \in 1..Len(LowerLetters) : LowerLetters[i] = ch
    THEN UpperLetters[CHOOSE i \in 1..Len(LowerLetters) : LowerLetters[i] = ch]
    ELSE ch

LowerChar(ch) ==
    IF \E i \in 1..Len(UpperLetters) : UpperLetters[i] = ch
    THEN LowerLetters[CHOOSE i \in 1..Len(UpperLetters) : UpperLetters[i] = ch]
    ELSE ch

\* str.upper() and str.lower()
StrUpper(chars) == [i \in 1..Len(chars) |-> UpperChar(chars[i])]
StrLower(chars) == [i \in 1..Len(chars) |-> LowerChar(chars[i])]

RECURSIVE StrLStrip(_)
StrLStrip(chars) ==
    IF chars # <<>> /\ Head(chars) \in WhitespaceChars
    THEN StrLStrip(Tail(chars))
    ELSE chars

RECURSIVE StrRStrip(_)
StrRStrip(chars) ==
    IF chars # <<>> /\ chars[Len(chars)] \in WhitespaceChars
    THEN StrRStrip(SubSeq(chars, 1, Len(chars) - 1))
    ELSE chars

\* str.strip()
StrStrip(chars) == StrRStrip(StrLStrip(chars))

\* `sub in chars` for two strings
StrContains(chars, sub) ==
    \E i \in 1..(Len(chars) - Len(sub) + 1) : SubSeq(chars, i, i + Len(sub) - 1) = sub

\* v.get(key, default): only a dict has .get
PyGet(v, key, default) ==
    IF v.t = "obj" THEN Ok(DictGet(v.o, key, default)) ELSE Raise("AttributeError")

\* v[0]
PyIndex0(v) ==
    CASE v.t = "list" -> IF v.xs # <<>> THEN Ok(v.xs[1]) ELSE Raise("IndexError")
      [] v.t = "str" -> IF "c" \in DOMAIN v /\ v.c # <<>>
                        THEN Ok(JChars(<<v.c[1]>>))
                        ELSE Raise("IndexError")
      [] v.t = "obj" -> Raise("KeyError")
      [] OTHER -> Raise("TypeError")

\* v.upper() and v.lower(): only a str has them
PyUpper(v) ==
    IF v.t = "str" /\ "c" \in DOMAIN v THEN Ok(JChars(StrUpper(v.c))) ELSE Raise("AttributeError")
PyLower(v) ==
    IF v.t = "str" /\ "c" \in DOMAIN v THEN Ok(JChars(StrLower(v.c))) ELSE Raise("AttributeError")

\* The value of a number in hundredths; a bool counts as 1 or 0.
IsNumber(v) == v.t \in {"int", "float", "bool"}
Hundredths(v) ==
    CASE v.t = "int" -> 100 * v.n
      [] v.t = "float" -> v.h
      [] v.t = "bool" -> IF v.b THEN 100 ELSE 0

\* v > n and v < n against an int literal: a TypeError unless v is a number
PyGreater(v, n) == IF IsNumber(v) THEN Ok(Hundredths(v) > 100 * n) ELSE Raise("TypeError")
PyLess(v, n) == IF IsNumber(v) THEN Ok(Hundredths(v) < 100 * n) ELSE Raise("TypeError")

(***************************************************************************)
(* agents/mcp_weather_service.py                                           *)
(***************************************************************************)
DEL == <<"D", "E", "L">>
BOM == <<"B", "O", "M">>
CCU == <<"C", "C", "U">>
BLR == <<"B", "L", "R">>
MAA == <<"M", "A", "A">>
HYD == <<"H", "Y", "D">>
COK == <<"C", "O", "K">>
GOI == <<"G", "O", "I">>

HIGH_SEVERITY_AIRPORTS == {DEL, BOM, CCU, BLR}
major_hubs == {DEL, BOM, BLR, MAA}
WEATHER_API_TIMEOUT == 5

airport_to_city ==
    (DEL :> "Delhi") @@ (BOM :> "Mumbai") @@ (CCU :> "Kolkata") @@ (BLR :> "Bangalore")
    @@ (MAA :> "Chennai") @@ (HYD :> "Hyderabad") @@ (COK :> "Kochi") @@ (GOI :> "Goa")

HighKeywords == {<<"T", "H", "U", "N", "D", "E", "R", "S", "T", "O", "R", "M">>, <<"E", "X", "T", "R", "E", "M", "E">>}
HighDescriptions == {<<"h", "e", "a", "v", "y">>, <<"s", "e", "v", "e", "r", "e">>}
MediumKeywords == {<<"R", "A", "I", "N">>, <<"S", "N", "O", "W">>, <<"D", "R", "I", "Z", "Z", "L", "E">>}
StrongWind == 15
ModerateWind == 8
LowVisibility == 1000
ReducedVisibility == 5000

\* A rating that asks for the MEDIUM conditions before the HIGH wind and
\* visibility checks.
WeatherDisruptionService_normalize_severity_reordered(weather_main, weather_description, wind_speed, visibility) ==
    IF \E keyword \in HighKeywords : StrContains(weather_main, keyword)
    THEN Ok("HIGH")
    ELSE IF \E keyword \in HighDescriptions : StrContains(weather_description, keyword)
    THEN Ok("HIGH")
    ELSE IF \E keyword \in MediumKeywords : StrContains(weather_main, keyword)
    THEN Ok("MEDIUM")
    ELSE Bind(PyGreater(wind_speed, StrongWind), LAMBDA strong_wind :
         IF strong_wind
         THEN Ok("HIGH")
         ELSE Bind(PyLess(visibility, LowVisibility), LAMBDA low_visibility :
              IF low_visibility
              THEN Ok("HIGH")
              ELSE IF Hundredths(wind_speed) > 100 * ModerateWind
              THEN Ok("MEDIUM")
              ELSE IF Hundredths(visibility) < 100 * ReducedVisibility
              THEN Ok("MEDIUM")
              ELSE Ok("LOW")))

\* _normalize_severity: the first check that matches decides; a comparison of a
\* value that is no number raises TypeError when it is reached.
WeatherDisruptionService_normalize_severity(weather_main, weather_description, wind_speed, visibility) ==
    IF \E keyword \in HighKeywords : StrContains(weather_main, keyword)
    THEN Ok("HIGH")
    ELSE IF \E keyword \in HighDescriptions : StrContains(weather_description, keyword)
    THEN Ok("HIGH")
    ELSE Bind(PyGreater(wind_speed, StrongWind), LAMBDA strong_wind :
         IF strong_wind
         THEN Ok("HIGH")
         ELSE Bind(PyLess(visibility, LowVisibility), LAMBDA low_visibility :
              IF low_visibility
              THEN Ok("HIGH")
              ELSE IF \E keyword \in MediumKeywords : StrContains(weather_main, keyword)
              THEN Ok("MEDIUM")
              ELSE IF Hundredths(wind_speed) > 100 * ModerateWind
              THEN Ok("MEDIUM")
              ELSE IF Hundredths(visibility) < 100 * ReducedVisibility
              THEN Ok("MEDIUM")
              ELSE Ok("LOW")))

\* _estimate_duration: hours, as a float
WeatherDisruptionService_estimate_duration(severity) ==
    CASE severity = "HIGH" -> JFloat(400)
      [] severity = "MEDIUM" -> JFloat(200)
      [] severity = "LOW" -> JFloat(50)
      [] OTHER -> JFloat(200)

\* A risk assessment that takes the high-severity airports for the major hubs.
WeatherDisruptionService_assess_cascading_risk_listed(severity, airport_code) ==
    IF severity = "HIGH" THEN "HIGH"
    ELSE IF severity = "MEDIUM" /\ airport_code \in HIGH_SEVERITY_AIRPORTS THEN "MEDIUM"
    ELSE "LOW"

WeatherDisruptionService_assess_cascading_risk(severity, airport_code) ==
    IF severity = "HIGH" THEN "HIGH"
    ELSE IF severity = "MEDIUM" /\ airport_code \in major_hubs THEN "MEDIUM"
    ELSE IF severity = "MEDIUM" THEN "LOW"
    ELSE "LOW"

\* A fallback rule that takes the major hubs for the high-severity airports.
WeatherDisruptionService_get_fallback_response_hubs(airport_code) ==
    IF airport_code \in major_hubs
    THEN [severity |-> JStr("HIGH"),
          expected_duration_hours |-> JFloat(400),
          cascading_delay_risk |-> JStr("HIGH"),
          source |-> JStr("v2")]
    ELSE [severity |-> JStr("MEDIUM"),
          expected_duration_hours |-> JFloat(200),
          cascading_delay_risk |-> JStr("MEDIUM"),
          source |-> JStr("v2")]

WeatherDisruptionService_get_fallback_response(airport_code) ==
    IF airport_code \in HIGH_SEVERITY_AIRPORTS
    THEN [severity |-> JStr("HIGH"),
          expected_duration_hours |-> JFloat(400),
          cascading_delay_risk |-> JStr("HIGH"),
          source |-> JStr("v2")]
    ELSE [severity |-> JStr("MEDIUM"),
          expected_duration_hours |-> JFloat(200),
          cascading_delay_risk |-> JStr("MEDIUM"),
          source |-> JStr("v2")]

\* mcp_weather_service.py 123-151: the parsed body of a 200 reply turned into the
\* v1 result; each step may raise.
WeatherFromJson(weather_data, airport_code) ==
    Bind(PyGet(weather_data, "weather", JList(<<JObj(EmptyDict)>>)), LAMBDA weather_list :
    Bind(PyIndex0(weather_list), LAMBDA main_weather :
    Bind(PyGet(main_weather, "main", JChars(<<>>)), LAMBDA main_raw :
    Bind(PyUpper(main_raw), LAMBDA weather_main :
    Bind(PyGet(main_weather, "description", JChars(<<>>)), LAMBDA description_raw :
    Bind(PyLower(description_raw), LAMBDA weather_description :
    Bind(PyGet(weather_data, "wind", JObj(EmptyDict)), LAMBDA wind :
    Bind(PyGet(wind, "speed", JInt(0)), LAMBDA wind_speed :
    Bind(PyGet(weather_data, "visibility", JInt(10000)), LAMBDA visibility :
    Bind(WeatherDisruptionService_normalize_severity(
             weather_main.c, weather_description.c, wind_speed, visibility),
         LAMBDA severity :
             Ok([severity |-> JStr(severity),
                 expected_duration_hours |->
                     WeatherDisruptionService_estimate_duration(severity),
                 cascading_delay_risk |->
                     JStr(WeatherDisruptionService_assess_cascading_risk(
                              severity, airport_code)),
                 source |-> JStr("v1"),
                 raw_weather |-> JObj([condition |-> weather_main,
                                       description |-> weather_description,
                                       wind_speed_ms |-> wind_speed,
                                       visibility_m |-> visibility])])))))))))))

\* Except clauses for the request errors alone.
WeatherCaughtRequestErrors(exc) == exc \in {"Timeout", "RequestException"}

\* An exception the except clauses of _fetch_real_weather catch
\* (mcp_weather_service.py 153-164): the last one catches every Exception.
WeatherCaught(exc) == TRUE

\* _fetch_real_weather: `value` is the v1 dict, or None when the fallback is to
\* be used. `http` is the outcome of requests.get: a timeout, another request
\* error, or a reply with a status and a body.
WeatherDisruptionService_fetch_real_weather(airport_code, api_key, http) ==
    IF ~api_key
    THEN [raised |-> FALSE, value |-> JNull, http_calls |-> 0]
    ELSE IF airport_code \notin DOMAIN airport_to_city
    THEN [raised |-> FALSE, value |-> JNull, http_calls |-> 0]
    ELSE Let(IF http.kind = "timeout" THEN Raise("Timeout")
             ELSE IF http.kind = "request_error" THEN Raise("RequestException")
             ELSE IF http.status # 200 THEN Ok(JNull)
             ELSE IF http.body.k # "json" THEN Raise("ValueError")
             ELSE Bind(WeatherFromJson(http.body.v, airport_code),
                       LAMBDA built : Ok(JObj(built))),
             LAMBDA attempt :
                 IF attempt.exc = "none"
                 THEN [raised |-> FALSE, value |-> attempt.val, http_calls |-> 1]
                 ELSE IF WeatherCaught(attempt.exc)
                 THEN [raised |-> FALSE, value |-> JNull, http_calls |-> 1]
                 ELSE [raised |-> TRUE, value |-> JNull, http_calls |-> 1])

\* get_weather_context: the code is upper-cased and stripped, the advisor is
\* tried, and a falsy result is replaced by the fallback rule's.
WeatherDisruptionService_get_weather_context(airport_code_in, api_key, http) ==
    Let(StrStrip(StrUpper(airport_code_in)), LAMBDA airport_code :
    Let(WeatherDisruptionService_fetch_real_weather(airport_code, api_key, http),
        LAMBDA real_data :
            IF real_data.raised
            THEN [raised |-> TRUE, value |-> EmptyDict, path |-> "error",
                  code |-> airport_code, http_calls |-> real_data.http_calls,
                  rule_calls |-> 0]
            ELSE IF Truthy(real_data.value)
            THEN [raised |-> FALSE, value |-> real_data.value.o, path |-> "advisor",
                  code |-> airport_code, http_calls |-> real_data.http_calls,
                  rule_calls |-> 0]
            ELSE [raised |-> FALSE,
                  value |-> WeatherDisruptionService_get_fallback_response(airport_code),
                  path |-> "fallback",
                  code |-> airport_code, http_calls |-> real_data.http_calls,
                  rule_calls |-> 1]))

(***************************************************************************)
(* agents/serializers.py                                                   *)
(***************************************************************************)
\* IntegerField(min_value=0), required: the error of one field of `data`, or
\* "" when the field is valid.
IntegerFieldError(data, field) ==
    IF data.t # "obj" \/ field \notin DOMAIN data.o THEN "This field is required."
    ELSE IF data.o[field].t = "null" THEN "This field may not be null."
    ELSE IF data.o[field].t # "int" THEN "A valid integer is required."
    ELSE IF data.o[field].n < 0 THEN "Ensure this value is greater than or equal to 0."
    ELSE ""

\* The errors of a serializer with the integer fields `fields`: field -> message.
FieldErrors(data, fields) ==
    LET bad == {f \in fields : IntegerFieldError(data, f) # ""}
    IN  [f \in bad |-> JStr(IntegerFieldError(data, f))]

CostFields == {"delay_hours", "total_passengers", "vip_passengers"}

\* A serializer without validate(): the fields alone are checked.
GeminiCostRequestSerializer_fields_only(data) == FieldErrors(data, CostFields)

\* GeminiCostRequestSerializer: field validation, then validate().
GeminiCostRequestSerializer_errors(data) ==
    IF DOMAIN FieldErrors(data, CostFields) # {}
    THEN FieldErrors(data, CostFields)
    ELSE IF data.o.vip_passengers.n > data.o.total_passengers.n
    THEN [non_field_errors |-> JStr("VIP passengers cannot exceed total passengers")]
    ELSE EmptyDict

ComplianceRequestSerializer_errors(data) == FieldErrors(data, {"delay_hours"})

\* OpsRequestSerializer declares no field: a dict is always valid.
OpsRequestSerializer_errors(data) ==
    IF data.t # "obj"
    THEN [non_field_errors |-> JStr("Invalid data. Expected a dictionary.")]
    ELSE EmptyDict

\* validated_data of a valid cost or compliance request: the fields as ints.
ValidatedData(data, fields) == [f \in fields |-> data.o[f].n]

(***************************************************************************)
(* agents/views.py                                                         *)
(***************************************************************************)
\* An except clause that catches nothing.
LogCaughtNothing(exc) == FALSE

\* An exception the except clause of _log_agent_call catches: every Exception.
LogCaught(exc) == TRUE

\* A helper that writes nothing.
log_agent_call_dropping(table, agent_name, request_data, response_data, store_ok) ==
    [table |-> table, raised |-> FALSE]

\* A helper that keeps the newest entry alone.
log_agent_call_overwriting(table, agent_name, request_data, response_data, store_ok) ==
    [table |-> <<[agent_name |-> agent_name,
                  request_payload |-> request_data,
                  response_payload |-> response_data]>>,
     raised |-> FALSE]

\* _log_agent_call: `store_ok` says whether the log store accepts the write.
\*   table: the log after the call;  raised: an exception left the helper.
log_agent_call(table, agent_name, request_data, response_data, store_ok) ==
    IF store_ok
    THEN [table |-> Append(table, [agent_name |-> agent_name,
                                   request_payload |-> request_data,
                                   response_payload |-> response_data]),
          raised |-> FALSE]
    ELSE IF LogCaught("DatabaseError")
    THEN [table |-> table, raised |-> FALSE]
    ELSE [table |-> table, raised |-> TRUE]

NoAdvisor == [kind |-> "none"]

\* The response to an invalid request (views.py 50-54).
InvalidRequest(errors) ==
    [error |-> JStr("Invalid request"), details |-> JObj(errors)]

\* The record of a call that ended in an exception nobody caught: Django
\* answers it with status 500.
Unhandled(op, request, outcome, exc) ==
    [op |-> op, request |-> request, outcome |-> outcome, status |-> 500,
     body |-> EmptyDict, unhandled |-> TRUE, path |-> "error",
     advisor_calls |-> 0, rule_calls |-> 0, log_calls |-> 0, store_ok |-> TRUE]

\* Views that number their answers by the entries already in the log.
LogAndRespond_numbered(table, op, agent_name, request, outcome, svc, store_ok) ==
    [log |-> log_agent_call(table, agent_name, request, svc.value, store_ok).table,
     last |-> [op |-> op, request |-> request, outcome |-> outcome,
               status |-> 200,
               body |-> [k \in DOMAIN svc.value \cup {"sequence"} |->
                            IF k = "sequence" THEN JInt(Len(table)) ELSE svc.value[k]],
               unhandled |-> FALSE,
               path |-> svc.path, advisor_calls |-> svc.advisor_calls,
               rule_calls |-> svc.rule_calls, log_calls |-> 1,
               store_ok |-> store_ok]]

\* What the three agent views share once the decision is made (views.py 72-82):
\* log the call, then answer 200 with the decision.
LogAndRespond(table, op, agent_name, request, outcome, svc, store_ok) ==
    Let(log_agent_call(table, agent_name, request, svc.value, store_ok), LAMBDA logged :
        [log |-> logged.table,
         last |-> IF logged.raised
                  THEN [Unhandled(op, request, outcome, "DatabaseError")
                           EXCEPT !.store_ok = store_ok, !.log_calls = 1]
                  ELSE [op |-> op, request |-> request, outcome |-> outcome,
                        status |-> 200, body |-> svc.value, unhandled |-> FALSE,
                        path |-> svc.path, advisor_calls |-> svc.advisor_calls,
                        rule_calls |-> svc.rule_calls, log_calls |-> 1,
                        store_ok |-> store_ok]])

\* A view that answered 400 before reaching its service.
Rejected(op, request, errors) ==
    [op |-> op, request |-> request, outcome |-> NoAdvisor, status |-> 400,
     body |-> InvalidRequest(errors), unhandled |-> FALSE, path |-> "none",
     advisor_calls |-> 0, rule_calls |-> 0, log_calls |-> 0, store_ok |-> TRUE]

\* POST /api/agent/gemini-cost/
gemini_cost_agent_result(table, gemini_key, request, llm, store_ok) ==
    Let(GeminiCostRequestSerializer_errors(request), LAMBDA errors :
        IF DOMAIN errors # {}
        THEN [log |-> table, last |-> Rejected("gemini_cost_agent", request, errors)]
        ELSE Let(GeminiCostService_get_recommendation(
                     ValidatedData(request, CostFields), gemini_key, llm),
                 LAMBDA svc :
                     IF svc.raised
                     THEN [log |-> table,
                           last |-> Unhandled("gemini_cost_agent", request,
                                              IF gemini_key THEN llm ELSE NoAdvisor,
                                              "Exception")]
                     ELSE LogAndRespond(table, "gemini_cost_agent", GeminiAgentName, request,
                                        IF gemini_key THEN llm ELSE NoAdvisor,
                                        [value |-> svc.value, path |-> svc.path,
                                         advisor_calls |-> svc.llm_calls,
                                         rule_calls |-> svc.rule_calls],
                                        store_ok)))

gemini_cost_agent(request, llm, store_ok) ==
    /\ log' = gemini_cost_agent_result(log, config.gemini_key, request, llm, store_ok).log
    /\ last' = gemini_cost_agent_result(log, config.gemini_key, request, llm, store_ok).last
    /\ UNCHANGED config

\* POST /api/agent/compliance/
compliance_agent_result(table, request, store_ok) ==
    Let(ComplianceRequestSerializer_errors(request), LAMBDA errors :
        IF DOMAIN errors # {}
        THEN [log |-> table, last |-> Rejected("compliance_agent", request, errors)]
        ELSE LogAndRespond(table, "compliance_agent", ComplianceAgentName, request, NoAdvisor,
                           [value |-> ComplianceService_get_rule(
                                          ValidatedData(request, {"delay_hours"}).delay_hours),
                            path |-> "rule", advisor_calls |-> 0, rule_calls |-> 1],
                           store_ok))

compliance_agent(request, store_ok) ==
    /\ log' = compliance_agent_result(log, request, store_ok).log
    /\ last' = compliance_agent_result(log, request, store_ok).last
    /\ UNCHANGED config

\* POST /api/agent/ops/: `request.data or {}` replaces an empty body by {}.
ops_agent_result(table, request, store_ok) ==
    Let(IF Truthy(request) THEN request ELSE JObj(EmptyDict), LAMBDA data :
    Let(OpsRequestSerializer_errors(data), LAMBDA errors :
        IF DOMAIN errors # {}
        THEN [log |-> table, last |-> Rejected("ops_agent", request, errors)]
        ELSE LogAndRespond(table, "ops_agent", OpsAgentName, data, NoAdvisor,
                           [value |-> OpsService_get_feasibility,
                            path |-> "rule", advisor_calls |-> 0, rule_calls |-> 1],
                           store_ok)))

ops_agent(request, store_ok) ==
    /\ log' = ops_agent_result(log, request, store_ok).log
    /\ last' = ops_agent_result(log, request, store_ok).last
    /\ UNCHANGED config

(***************************************************************************)
(* agents/mcp_views.py                                                     *)
(***************************************************************************)
WeatherToolName == "weather_disruption_context"

McpError(code, message) ==
    [error |-> JObj([code |-> JStr(code), message |-> JStr(message)])]

\* A response of mcp_tool_invoke that did not reach the weather service.
McpAnswer(request, status, body) ==
    [op |-> "mcp_tool_invoke", request |-> request, outcome |-> NoAdvisor,
     status |-> status, body |-> body, unhandled |-> FALSE, path |-> "none",
     advisor_calls |-> 0, rule_calls |-> 0, log_calls |-> 0, store_ok |-> TRUE]

\* mcp_tool_invoke: the outcome of POST /mcp/tools/invoke with the body
\* `request` (text that is no JSON, or one JSON document).
mcp_tool_invoke_result(request, weather_key, http) ==
    Let(JsonLoads(<<request>>), LAMBDA body :
    IF body.exc # "none"
    THEN McpAnswer(request, 400,
                   McpError("INVALID_REQUEST", "Request body must be valid JSON"))
    ELSE
    Let(PyGet(body.val, "tool", JNull), LAMBDA tool_name :
    Let(PyGet(body.val, "arguments", JObj(EmptyDict)), LAMBDA arguments :
    IF tool_name.exc # "none"
    THEN Unhandled("mcp_tool_invoke", request, NoAdvisor, tool_name.exc)
    ELSE IF ~Truthy(tool_name.val)
    THEN McpAnswer(request, 400, McpError("MISSING_TOOL", "Tool name is required"))
    ELSE IF tool_name.val # JStr(WeatherToolName)
    THEN McpAnswer(request, 404,
                   [error |-> JObj([code |-> JStr("UNKNOWN_TOOL"),
                                    message |-> [t |-> "str",
                                                 fmt |-> "Tool '{}' is not available. Use /mcp/capabilities to discover available tools.",
                                                 arg |-> tool_name.val]])])
    ELSE
    Let(PyGet(arguments.val, "airport_code", JNull), LAMBDA airport_code :
    IF airport_code.exc # "none"
    THEN Unhandled("mcp_tool_invoke", request, NoAdvisor, airport_code.exc)
    ELSE IF ~Truthy(airport_code.val)
    THEN McpAnswer(request, 400,
                   McpError("INVALID_ARGUMENTS", "airport_code is required"))
    ELSE IF airport_code.val.t # "str" \/ Len(airport_code.val.c) # 3
    THEN McpAnswer(request, 400,
                   McpError("INVALID_ARGUMENTS", "airport_code must be a 3-letter IATA code"))
    ELSE
    Let(WeatherDisruptionService_get_weather_context(airport_code.val.c, weather_key, http),
        LAMBDA svc :
            IF svc.raised
            THEN Unhandled("mcp_tool_invoke", request,
                           IF svc.http_calls > 0 THEN http ELSE NoAdvisor, "Exception")
            ELSE [op |-> "mcp_tool_invoke", request |-> request,
                  outcome |-> IF svc.http_calls > 0 THEN http ELSE NoAdvisor,
                  status |-> 200,
                  body |-> [tool |-> tool_name.val, result |-> JObj(svc.value)],
                  unhandled |-> FALSE, path |-> svc.path,
                  advisor_calls |-> svc.http_calls, rule_calls |-> svc.rule_calls,
                  log_calls |-> 0, store_ok |-> TRUE])))))

\* POST /mcp/tools/invoke
mcp_tool_invoke(request, http) ==
    /\ last' = mcp_tool_invoke_result(request, config.weather_key, http)
    /\ UNCHANGED <<config, log>>

\* GET /mcp/capabilities: the static tool descriptor (mcp_views.py 31-78).
Capabilities ==
    [mcp_version |-> JStr("1.0"),
     server_name |-> JStr("airline_disruption_context"),
     server_version |-> JStr("1.0.0"),
     tools |-> JList(<<JObj(
         [name |-> JStr(WeatherToolName),
          input_schema |-> JObj(
              [type |-> JStr("object"),
               properties |-> JObj([airport_code |-> JObj(
                   [type |-> JStr("string"), pattern |-> JStr("^[A-Z]{3}$")])]),
               required |-> JList(<<JStr("airport_code")>>)]),
          output_schema |-> JObj(
              [type |-> JStr("object"),
               properties |-> JObj(
                   [severity |-> JObj([type |-> JStr("string")]),
                    expected_duration_hours |-> JObj([type |-> JStr("number")]),
                    cascading_delay_risk |-> JObj([type |-> JStr("string")]),
                    source |-> JObj([type |-> JStr("string")])]),
               required |-> JList(<<JStr("severity"), JStr("expected_duration_hours"),
                                    JStr("cascading_delay_risk"), JStr("source")>>)])])>>)]

mcp_capabilities ==
    /\ last' = [op |-> "mcp_capabilities", request |-> JNull, outcome |-> NoAdvisor,
                status |-> 200, body |-> Capabilities, unhandled |-> FALSE,
                path |-> "none", advisor_calls |-> 0, rule_calls |-> 0,
                log_calls |-> 0, store_ok |-> TRUE]
    /\ UNCHANGED <<config, log>>

(***************************************************************************)
(* Direct calls of the services and rules, as a caller inside the process  *)
(* makes them: no HTTP status, no log.                                     *)
(***************************************************************************)
ServiceCall(op, request, outcome, raised, value, path, advisor_calls, rule_calls) ==
    [op |-> op, request |-> request, outcome |-> outcome, status |-> 0,
     body |-> value, unhandled |-> raised, path |-> path,
     advisor_calls |-> advisor_calls, rule_calls |-> rule_calls,
     log_calls |-> 0, store_ok |-> TRUE]

call_get_recommendation(args, llm) ==
    /\ last' = Let(GeminiCostService_get_recommendation(args, config.gemini_key, llm),
                   LAMBDA svc :
                       ServiceCall("get_recommendation", args,
                                   IF config.gemini_key THEN llm ELSE NoAdvisor,
                                   svc.raised, svc.value, svc.path,
                                   svc.llm_calls, svc.rule_calls))
    /\ UNCHANGED <<config, log>>

call_cost_fallback(args) ==
    /\ last' = ServiceCall("cost_fallback", args, NoAdvisor, FALSE,
                           GeminiCostService_get_fallback_response(
                               args.delay_hours, args.total_passengers, args.vip_passengers),
                           "rule", 0, 1)
    /\ UNCHANGED <<config, log>>

call_get_rule(delay_hours) ==
    /\ last' = ServiceCall("get_rule", delay_hours, NoAdvisor, FALSE,
                           ComplianceService_get_rule(delay_hours), "rule", 0, 1)
    /\ UNCHANGED <<config, log>>

call_get_feasibility ==
    /\ last' = ServiceCall("get_feasibility", JNull, NoAdvisor, FALSE,
                           OpsService_get_feasibility, "rule", 0, 1)
    /\ UNCHANGED <<config, log>>

call_get_weather_context(airport_code, http) ==
    /\ last' = Let(WeatherDisruptionService_get_weather_context(
                       airport_code, config.weather_key, http),
                   LAMBDA svc :
                       ServiceCall("get_weather_context", airport_code,
                                   IF svc.http_calls > 0 THEN http ELSE NoAdvisor,
                                   svc.raised, svc.value, svc.path,
                                   svc.http_calls, svc.rule_calls))
    /\ UNCHANGED <<config, log>>

(***************************************************************************)
(* Inputs                                                                  *)
(***************************************************************************)
MaxDelay == 5        \* delays run over 0..MaxDelay hours
PaxSpan == 1         \* head counts within PaxSpan of the small-group size, and 0
MaxVip == 1          \* VIP counts 0..MaxVip, and the whole flight
MaxLog == 2          \* the log of the server specification holds MaxLog entries

Delays == 0..MaxDelay
Passengers == {0} \cup ((SmallGroupSize - PaxSpan)..(SmallGroupSize + PaxSpan))

\* Validated cost requests: non-negative integers with vip <= total.
CostArgs ==
    {a \in [delay_hours : Delays, total_passengers : Passengers,
            vip_passengers : (0..MaxVip) \cup Passengers] :
        a.vip_passengers <= a.total_passengers}

\* Replies of the generative model.
GoodPayload ==
    [recommendation |-> JStr("HOTEL_FOR_ALL"), reason |-> JStr("Long delay"),
     confidence |-> JFloat(90)]
Recommendations == {JStr("HOTEL_FOR_ALL"), JStr("LIMIT_HOTEL"), JNull, JInt(42)}
Reasons == {JStr("Long delay"), JNull}
Confidences ==
    {JFloat(90), JFloat(150), JFloat(-20), JInt(1), JInt(2), JBool(TRUE),
     JStr("0.8"), JStr("1.5"), JStr("high"), JNull, JList(<<>>)}
GeminiObjects ==
    {Restrict([recommendation |-> r, reason |-> s, confidence |-> c], keys) :
        r \in Recommendations, s \in Reasons, c \in Confidences,
        keys \in SUBSET {"recommendation", "reason", "confidence"}}
GeminiDocs ==
    {JObj(o) : o \in GeminiObjects}
    \cup {JList(<<JStr("HOTEL_FOR_ALL")>>), JStr("HOTEL_FOR_ALL"), JInt(1), JNull}
Prefixes ==
    {<<>>, <<FenceJson>>, <<Fence>>, <<FenceJson, Fence>>, <<FenceJson, FenceJson>>,
     <<Ws, FenceJson, Ws>>, <<Junk>>}
Suffixes == {<<>>, <<Fence>>, <<Ws, Fence, Ws>>, <<Junk>>, <<Fence, Fence>>}
GeminiTexts ==
    {<<Doc(d)>> : d \in GeminiDocs}
    \cup {pre \o <<Doc(JObj(GoodPayload))>> \o suf : pre \in Prefixes, suf \in Suffixes}
    \cup {<<>>, <<Junk>>, <<Ws>>, <<Fence, Fence>>}
TextReply(text) == [kind |-> "text", text |-> text]
RaisingCall == [kind |-> "raise"]
GoodReply == [ctor_failures |-> 0, gen |-> TextReply(<<Doc(JObj(GoodPayload))>>)]
GeminiOutcomes ==
    {[ctor_failures |-> n, gen |-> RaisingCall] : n \in 0..Len(ModelNames)}
    \cup {[ctor_failures |-> n, gen |-> TextReply(<<Doc(JObj(GoodPayload))>>)] :
             n \in 1..(Len(ModelNames) - 1)}
    \cup {[ctor_failures |-> 0, gen |-> TextReply(text)] : text \in GeminiTexts}
\* A few outcomes, one of each kind, to pair with every request.
FewGeminiOutcomes ==
    {GoodReply,
     [ctor_failures |-> 0, gen |-> RaisingCall],
     [ctor_failures |-> Len(ModelNames), gen |-> RaisingCall],
     [ctor_failures |-> 0, gen |-> TextReply(<<Junk>>)],
     [ctor_failures |-> 0, gen |-> TextReply(<<Doc(JList(<<JStr("HOTEL_FOR_ALL")>>))>>)],
     [ctor_failures |-> 0, gen |-> TextReply(<<Doc(JObj(EmptyDict))>>)],
     [ctor_failures |-> 0, gen |-> TextReply(<<Doc(JObj([confidence |-> JStr("high")]))>>)],
     [ctor_failures |-> 0, gen |-> TextReply(<<Doc(JObj([recommendation |-> JNull,
                                                         confidence |-> JFloat(150)]))>>)]}
\* A few requests to pair with every outcome.
FewCostArgs ==
    {[delay_hours |-> 1, total_passengers |-> SmallGroupSize, vip_passengers |-> 0],
     [delay_hours |-> LongDelayHours, total_passengers |-> SmallGroupSize,
      vip_passengers |-> 1]}

\* Airport codes as a client may send them.
AirportCodeInputs ==
    {DEL, BOM, CCU, MAA, GOI, <<"d", "e", "l">>, <<"B", "o", "m">>, <<"P", "N", "Q">>, <<"X", "X">>, <<"D", "E", "L", "H", "I">>, <<" ", "D", "E", "L", " ">>, <<"D", "E", " ">>, <<" ", " ", " ">>, <<>>}
FewAirportCodes == {DEL, MAA, GOI}

\* Replies of the weather provider.
Conditions ==
    {[main |-> JChars(<<"R", "a", "i", "n">>), description |-> JChars(<<"l", "i", "g", "h", "t", " ", "r", "a", "i", "n">>)],
     [main |-> JChars(<<"R", "a", "i", "n">>), description |-> JChars(<<"h", "e", "a", "v", "y", " ", "i", "n", "t", "e", "n", "s", "i", "t", "y", " ", "r", "a", "i", "n">>)],
     [main |-> JChars(<<"T", "h", "u", "n", "d", "e", "r", "s", "t", "o", "r", "m">>), description |-> JChars(<<"t", "h", "u", "n", "d", "e", "r", "s", "t", "o", "r", "m">>)],
     [main |-> JChars(<<"C", "l", "e", "a", "r">>), description |-> JChars(<<"c", "l", "e", "a", "r", " ", "s", "k", "y">>)],
     [main |-> JChars(<<"S", "n", "o", "w">>), description |-> JChars(<<"S", "e", "v", "e", "r", "e", " ", "s", "n", "o", "w">>)],
     [main |-> JChars(<<"D", "r", "i", "z", "z", "l", "e">>)],
     [main |-> JNull, description |-> JChars(<<"m", "i", "s", "t">>)],
     [main |-> JChars(<<"C", "l", "o", "u", "d", "s">>), description |-> JInt(804)],
     EmptyDict}
WeatherValues ==
    {JList(<<JObj(w)>>) : w \in Conditions}
    \cup {JList(<<>>), JNull, JObj(EmptyDict), JChars(<<"R", "a", "i", "n">>), JList(<<JNull>>)}
WindSpeeds ==
    {JInt(3), JInt(8), JInt(9), JInt(15), JInt(16), JFloat(1550), JChars(<<"9">>), JNull}
WindValues ==
    {JObj([speed |-> x]) : x \in WindSpeeds} \cup {JObj(EmptyDict), JNull}
VisibilityValues ==
    {JInt(10000), JInt(5000), JInt(4999), JInt(1000), JInt(999), JNull}
WeatherBodies ==
    {JObj(Restrict([weather |-> w, wind |-> x, visibility |-> v], keys)) :
        w \in WeatherValues, x \in WindValues, v \in VisibilityValues,
        keys \in SUBSET {"weather", "wind", "visibility"}}
    \cup {JList(<<>>), JNull}
HttpReply(status, body) == [kind |-> "response", status |-> status, body |-> body]
RainReply ==
    HttpReply(200, Doc(JObj([weather |-> JList(<<JObj([main |-> JChars(<<"R", "a", "i", "n">>),
                                                       description |-> JChars(<<"l", "i", "g", "h", "t", " ", "r", "a", "i", "n">>)])>>),
                             wind |-> JObj([speed |-> JInt(3)]),
                             visibility |-> JInt(10000)])))
FailedHttpOutcomes ==
    {[kind |-> "timeout"], [kind |-> "request_error"],
     HttpReply(401, Junk), HttpReply(500, Junk), HttpReply(404, Doc(JObj(EmptyDict))),
     HttpReply(200, Junk)}
HttpOutcomes == FailedHttpOutcomes \cup {HttpReply(200, Doc(b)) : b \in WeatherBodies}
FewHttpOutcomes ==
    FailedHttpOutcomes
    \cup {RainReply, HttpReply(200, Doc(JObj(EmptyDict))), HttpReply(200, Doc(JList(<<>>))),
          HttpReply(200, Doc(JObj([weather |-> JList(<<>>)]))),
          HttpReply(200, Doc(JObj([wind |-> JObj([speed |-> JNull])])))}

\* Bodies of POST /mcp/tools/invoke.
ToolValues ==
    {JNull, JStr(""), JStr(WeatherToolName), JStr("unknown_tool"), JInt(7), JInt(0),
     JList(<<JStr(WeatherToolName)>>)}
AirportCodeValues ==
    {JChars(c) : c \in AirportCodeInputs}
    \cup {JNull, JInt(123), JInt(0), JList(<<JInt(1), JInt(2), JInt(3)>>)}
ArgumentValues ==
    {JObj([airport_code |-> c]) : c \in AirportCodeValues}
    \cup {JObj(EmptyDict), JNull, JChars(<<"D", "E", "L">>), JList(<<JChars(<<"D", "E", "L">>)>>)}
McpBodies ==
    {JObj(Restrict([tool |-> t, arguments |-> a], keys)) :
        t \in ToolValues, a \in ArgumentValues, keys \in SUBSET {"tool", "arguments"}}
    \cup {JList(<<>>), JNull, JStr(WeatherToolName), JInt(1)}
McpRequests == {Junk} \cup {Doc(b) : b \in McpBodies}
WeatherRequest(code) ==
    Doc(JObj([tool |-> JStr(WeatherToolName),
              arguments |-> JObj([airport_code |-> JChars(code)])]))

(***************************************************************************)
(* The unit specification: one call of a service, a rule or an MCP view,   *)
(* over every input and every outcome of the external sources. The call is *)
(* drawn in the initial state and then made.                               *)
(***************************************************************************)
NoCall == [op |-> "none"]
Call(op, request, outcome) == [op |-> op, request |-> request, outcome |-> outcome]

UnitCalls ==
    {Call("get_recommendation", a, o) : a \in CostArgs, o \in FewGeminiOutcomes}
    \cup {Call("get_recommendation", a, o) : a \in FewCostArgs, o \in GeminiOutcomes}
    \cup {Call("cost_fallback", a, NoAdvisor) : a \in CostArgs}
    \cup {Call("get_rule", d, NoAdvisor) : d \in Delays}
    \cup {Call("get_feasibility", JNull, NoAdvisor)}
    \cup {Call("get_weather_context", c, o) : c \in AirportCodeInputs, o \in FewHttpOutcomes}
    \cup {Call("get_weather_context", c, o) : c \in FewAirportCodes, o \in HttpOutcomes}
    \cup {Call("mcp_tool_invoke", r, o) : r \in McpRequests, o \in {RainReply, [kind |-> "timeout"]}}
    \cup {Call("mcp_tool_invoke", WeatherRequest(c), o) : c \in AirportCodeInputs, o \in FewHttpOutcomes}
    \cup {Call("mcp_capabilities", JNull, NoAdvisor)}

InitCall ==
    [op |-> "init", request |-> JNull, outcome |-> NoAdvisor, status |-> 0,
     body |-> EmptyDict, unhandled |-> FALSE, path |-> "none",
     advisor_calls |-> 0, rule_calls |-> 0, log_calls |-> 0, store_ok |-> TRUE]

InitUnit ==
    /\ config \in [gemini_key : BOOLEAN, weather_key : BOOLEAN]
    /\ log = <<>>
    /\ last = InitCall
    /\ pending \in UnitCalls

NextUnit ==
    \/ /\ pending.op = "get_recommendation"
       /\ call_get_recommendation(pending.request, pending.outcome)
       /\ pending' = NoCall
    \/ /\ pending.op = "cost_fallback"
       /\ call_cost_fallback(pending.request)
       /\ pending' = NoCall
    \/ /\ pending.op = "get_rule"
       /\ call_get_rule(pending.request)
       /\ pending' = NoCall
    \/ /\ pending.op = "get_feasibility"
       /\ call_get_feasibility
       /\ pending' = NoCall
    \/ /\ pending.op = "get_weather_context"
       /\ call_get_weather_context(pending.request, pending.outcome)
       /\ pending' = NoCall
    \/ /\ pending.op = "mcp_tool_invoke"
       /\ mcp_tool_invoke(pending.request, pending.outcome)
       /\ pending' = NoCall
    \/ /\ pending.op = "mcp_capabilities"
       /\ mcp_capabilities
       /\ pending' = NoCall

SpecUnit == InitUnit /\ [][NextUnit]_vars

(***************************************************************************)
(* The server specification: the five endpoints served one request after   *)
(* another, with the call log.                                             *)
(***************************************************************************)
CostRequest(d, t, v) ==
    JObj([delay_hours |-> JInt(d), total_passengers |-> JInt(t), vip_passengers |-> JInt(v)])
ServerCostRequests ==
    {CostRequest(1, 60, 10), CostRequest(5, 60, 0), CostRequest(1, 200, 250),
     CostRequest(-1, 60, 0), JObj([delay_hours |-> JInt(1)])}
ServerGeminiOutcomes ==
    {GoodReply, [ctor_failures |-> 0, gen |-> RaisingCall],
     [ctor_failures |-> 0, gen |-> TextReply(<<Junk>>)]}
ServerComplianceRequests ==
    {JObj([delay_hours |-> JInt(1)]), JObj([delay_hours |-> JInt(3)]),
     JObj([delay_hours |-> JInt(-1)]), JObj([delay_hours |-> JNull]), JObj(EmptyDict)}
ServerOpsRequests ==
    {JObj(EmptyDict), JNull, JObj([note |-> JStr("gate change")]), JList(<<JInt(1)>>)}
ServerMcpRequests ==
    {Junk, Doc(JList(<<>>)), Doc(JObj(EmptyDict)),
     Doc(JObj([tool |-> JStr("unknown_tool")])),
     Doc(JObj([tool |-> JStr(WeatherToolName)])),
     WeatherRequest(<<"X", "X">>), WeatherRequest(DEL), WeatherRequest(GOI)}
ServerHttpOutcomes == {[kind |-> "timeout"], RainReply, HttpReply(500, Junk)}

Init ==
    /\ config \in [gemini_key : BOOLEAN, weather_key : BOOLEAN]
    /\ log = <<>>
    /\ last = InitCall
    /\ pending = NoCall

Next ==
    \/ \E request \in ServerCostRequests, llm \in ServerGeminiOutcomes, store_ok \in BOOLEAN :
           /\ Len(log) < MaxLog
           /\ gemini_cost_agent(request, llm, store_ok)
           /\ UNCHANGED pending
    \/ \E request \in ServerComplianceRequests, store_ok \in BOOLEAN :
           /\ Len(log) < MaxLog
           /\ compliance_agent(request, store_ok)
           /\ UNCHANGED pending
    \/ \E request \in ServerOpsRequests, store_ok \in BOOLEAN :
           /\ Len(log) < MaxLog
           /\ ops_agent(request, store_ok)
           /\ UNCHANGED pending
    \/ \E request \in ServerMcpRequests, http \in ServerHttpOutcomes :
           /\ mcp_tool_invoke(request, http)
           /\ UNCHANGED pending
    \/ /\ mcp_capabilities
       /\ UNCHANGED pending

Spec == Init /\ [][Next]_vars

(***************************************************************************)
(* Properties of the compliance rule and of the cost fallback rule         *)
(***************************************************************************)
\* C9: for every non-negative integer delay_hours the compliance rule returns
\* HOTEL_MANDATORY with confidence 1.0 when delay_hours >= 2 and
\* HOTEL_NOT_REQUIRED with confidence 1.0 when delay_hours < 2; the boundary
\* value 2 is HOTEL_MANDATORY.
C9_ComplianceRule ==
    last.op = "get_rule" =>
        /\ last.request >= 2 => last.body.rule = JStr("HOTEL_MANDATORY")
        /\ last.request < 2 => last.body.rule = JStr("HOTEL_NOT_REQUIRED")
        /\ last.body.confidence = JFloat(100)
        /\ ~last.unhandled

\* The compliance rule has been applied to the boundary delay of 2 hours.
C9_BoundaryDelayReached ==
    /\ last.op = "get_rule"
    /\ last.request = 2
    /\ last.body.rule = JStr("HOTEL_MANDATORY")

\* C10: for every validated (delay_hours, total_passengers, vip_passengers) the
\* cost fallback rule recommends HOTEL_FOR_ALL when delay_hours >= 4 or
\* total_passengers < 50 and LIMIT_HOTEL otherwise, and the result is the same
\* for every vip_passengers the validation admits.
C10_CostFallbackRule ==
    (last.op = "cost_fallback"
         \/ (last.op = "get_recommendation" /\ last.path = "fallback")) =>
        /\ last.body.recommendation =
               IF last.request.delay_hours >= 4 \/ last.request.total_passengers < 50
               THEN JStr("HOTEL_FOR_ALL")
               ELSE JStr("LIMIT_HOTEL")
        /\ \A vip \in 0..last.request.total_passengers :
               GeminiCostService_get_fallback_response(
                   last.request.delay_hours, last.request.total_passengers, vip) = last.body

\* The cost fallback rule has decided a short delay of a group of exactly 50, all
\* of them VIPs: the case nearest to both thresholds.
C10_LimitHotelAtThresholdReached ==
    /\ last.op = "cost_fallback"
    /\ last.request.delay_hours = 3
    /\ last.request.total_passengers = 50
    /\ last.request.vip_passengers = 50
    /\ last.body.recommendation = JStr("LIMIT_HOTEL")

(***************************************************************************)
(* Properties of the advisor-with-fallback services                        *)
(***************************************************************************)
\* The types the cost prompt asks of the reply: an object whose recommendation
\* and reason are strings and whose confidence is a number.
GeminiReplyWellTyped(doc) ==
    /\ doc.t = "obj"
    /\ \A k \in DOMAIN doc.o \cap {"recommendation", "reason"} : doc.o[k].t = "str"
    /\ "confidence" \in DOMAIN doc.o => doc.o.confidence.t \in {"int", "float"}

\* The advisor outcomes that count as failures of the generative model: no
\* credential, a call that raises, a text that is no JSON, a wrongly typed reply.
GeminiAdvisorFailed(outcome) ==
    \/ outcome = NoAdvisor
    \/ outcome.ctor_failures >= Len(ModelNames)
    \/ outcome.gen.kind = "raise"
    \/ JsonLoads(CleanResponseText(outcome.gen.text)).exc # "none"
    \/ ~GeminiReplyWellTyped(JsonLoads(CleanResponseText(outcome.gen.text)).val)

\* The types of the weather provider's reply: an object whose `weather` is a
\* non-empty list of objects with string main and description, whose wind is an
\* object with a numeric speed, and whose visibility is a number.
WeatherReplyWellTyped(doc) ==
    /\ doc.t = "obj"
    /\ "weather" \in DOMAIN doc.o =>
           /\ doc.o.weather.t = "list"
           /\ doc.o.weather.xs # <<>>
           /\ doc.o.weather.xs[1].t = "obj"
           /\ \A k \in DOMAIN doc.o.weather.xs[1].o : doc.o.weather.xs[1].o[k].t = "str"
    /\ "wind" \in DOMAIN doc.o =>
           /\ doc.o.wind.t = "obj"
           /\ "speed" \in DOMAIN doc.o.wind.o => doc.o.wind.o.speed.t \in {"int", "float"}
    /\ "visibility" \in DOMAIN doc.o => doc.o.visibility.t \in {"int", "float"}

\* The advisor outcomes that count as failures of the weather provider: not
\* contacted (no credential, no city for the code), a timeout or another request
\* error, a status other than 200, a body that is no JSON, a wrongly typed body.
WeatherAdvisorFailed(outcome) ==
    \/ outcome = NoAdvisor
    \/ outcome.kind \in {"timeout", "request_error"}
    \/ outcome.status # 200
    \/ outcome.body.k # "json"
    \/ ~WeatherReplyWellTyped(outcome.body.v)

\* C1: advisor failures are never surfaced. For every validated cost request and
\* every string airport code, and for every failed advisor outcome (credential
\* missing, call raising, timeout, non-200 status, unparseable or wrongly typed
\* payload), the service returns the payload of its fallback rule and raises
\* nothing.
C1_AdvisorFailuresAbsorbed ==
    /\ (last.op = "get_recommendation" /\ GeminiAdvisorFailed(last.outcome)) =>
           /\ ~last.unhandled
           /\ last.body = GeminiCostService_get_fallback_response(
                              last.request.delay_hours, last.request.total_passengers,
                              last.request.vip_passengers)
    /\ (last.op = "get_weather_context" /\ WeatherAdvisorFailed(last.outcome)) =>
           /\ ~last.unhandled
           /\ last.body = WeatherDisruptionService_get_fallback_response(
                              StrStrip(StrUpper(last.request)))

\* A reply whose recommendation is null has been returned to the caller as the
\* advisor's decision.
C1_WronglyTypedReplyReturned ==
    /\ last.op = "get_recommendation"
    /\ last.outcome # NoAdvisor
    /\ last.outcome.gen = TextReply(<<Doc(JObj([recommendation |-> JNull]))>>)
    /\ last.path = "advisor"
    /\ last.body.recommendation = JNull

\* The error code of an MCP error response, "" when the body holds no error.
ErrorCode(body) == IF "error" \in DOMAIN body THEN body.error.o.code.s ELSE ""

\* C2: for every request body, mcp_tool_invoke ends in exactly one of
\* 200 {tool, result}, 400 INVALID_REQUEST, 400 MISSING_TOOL,
\* 400 INVALID_ARGUMENTS and 404 UNKNOWN_TOOL, never in an unhandled error.
C2_InvokeOutcomes ==
    last.op = "mcp_tool_invoke" =>
        /\ ~last.unhandled
        /\ <<last.status, ErrorCode(last.body)>> \in
               {<<200, "">>, <<400, "INVALID_REQUEST">>, <<400, "MISSING_TOOL">>,
                <<400, "INVALID_ARGUMENTS">>, <<404, "UNKNOWN_TOOL">>}
        /\ last.status = 200 => DOMAIN last.body = {"tool", "result"}

\* The body [] has been posted and has ended in an unhandled AttributeError.
C2_ListBodyUnhandled ==
    /\ last.op = "mcp_tool_invoke"
    /\ last.request = Doc(JList(<<>>))
    /\ last.unhandled
    /\ last.status = 500

DecisionCalls ==
    {"get_recommendation", "cost_fallback", "get_rule", "get_feasibility",
     "get_weather_context"}

\* C3: every decision response that reaches the caller is fully populated: on
\* every path no field of the cost, compliance, ops or weather response is null.
C3_FullyPopulated ==
    (last.op \in DecisionCalls /\ ~last.unhandled) =>
        \A k \in DOMAIN last.body : last.body[k] # JNull

\* A reply whose reason is null has reached the caller of the cost service.
C3_NullReasonReturned ==
    /\ last.op = "get_recommendation"
    /\ last.path = "advisor"
    /\ last.body.reason = JNull
    /\ last.body.recommendation # JNull

\* C4: the confidence of every cost and compliance decision returned to the
\* caller lies in [0,1], whichever path produced it.
C4_ConfidenceInUnitInterval ==
    (last.op \in {"get_recommendation", "cost_fallback", "get_rule"} /\ ~last.unhandled) =>
        /\ last.body.confidence.t = "float"
        /\ last.body.confidence.h >= 0
        /\ last.body.confidence.h <= 100

\* A reply with confidence 1.5 has reached the caller of the cost service.
C4_ConfidenceAboveOneReturned ==
    /\ last.op = "get_recommendation"
    /\ last.path = "advisor"
    /\ last.body.confidence = JFloat(150)

WeatherFields == {"severity", "expected_duration_hours", "cascading_delay_risk", "source"}

\* C5 as stated: for each decision kind the response has the same set of fields
\* whether the advisor succeeded or the rule engine was used.
C5_SameFieldsOnBothPaths ==
    /\ (last.op = "get_recommendation" /\ ~last.unhandled) =>
           DOMAIN last.body = DOMAIN GeminiCostService_get_fallback_response(
                                         last.request.delay_hours,
                                         last.request.total_passengers,
                                         last.request.vip_passengers)
    /\ (last.op = "get_weather_context" /\ ~last.unhandled) =>
           DOMAIN last.body = DOMAIN WeatherDisruptionService_get_fallback_response(
                                         StrStrip(StrUpper(last.request)))

\* C5, amended: the cost response has the same fields on both paths; the weather
\* response of the rule engine has the four weather fields with source v2, and
\* the weather response of the advisor has these four with source v1 and one
\* more field, raw_weather.
C5_FieldsOnEachPath ==
    /\ (last.op = "get_recommendation" /\ ~last.unhandled) =>
           DOMAIN last.body = DOMAIN GeminiCostService_get_fallback_response(
                                         last.request.delay_hours,
                                         last.request.total_passengers,
                                         last.request.vip_passengers)
    /\ (last.op = "get_weather_context" /\ last.path = "fallback") =>
           /\ DOMAIN last.body = WeatherFields
           /\ last.body.source = JStr("v2")
    /\ (last.op = "get_weather_context" /\ last.path = "advisor") =>
           /\ DOMAIN last.body = WeatherFields \cup {"raw_weather"}
           /\ last.body.source = JStr("v1")

\* The weather advisor has succeeded for a mapped airport.
C5_WeatherAdvisorSucceeded ==
    /\ last.op = "get_weather_context"
    /\ last.path = "advisor"
    /\ last.outcome = RainReply
    /\ "raw_weather" \in DOMAIN last.body

\* What a request asks for, read as the view reads it: a value that is absent or
\* cannot be looked up counts as None.
RequestedTool(request) ==
    IF request.v.t = "obj" /\ "tool" \in DOMAIN request.v.o
    THEN request.v.o.tool
    ELSE JNull
RequestedAirportCode(request) ==
    IF /\ request.v.t = "obj"
       /\ "arguments" \in DOMAIN request.v.o
       /\ request.v.o.arguments.t = "obj"
       /\ "airport_code" \in DOMAIN request.v.o.arguments.o
    THEN request.v.o.arguments.o.airport_code
    ELSE JNull

\* The status and error code the validation precedence gives a request.
ExpectedInvokeOutcome(request) ==
    IF request.k # "json" THEN <<400, "INVALID_REQUEST">>
    ELSE IF ~Truthy(RequestedTool(request)) THEN <<400, "MISSING_TOOL">>
    ELSE IF RequestedTool(request) # JStr(WeatherToolName) THEN <<404, "UNKNOWN_TOOL">>
    ELSE IF ~Truthy(RequestedAirportCode(request)) THEN <<400, "INVALID_ARGUMENTS">>
    ELSE IF RequestedAirportCode(request).t # "str" THEN <<400, "INVALID_ARGUMENTS">>
    ELSE IF Len(RequestedAirportCode(request).c) # 3 THEN <<400, "INVALID_ARGUMENTS">>
    ELSE <<200, "">>

\* C6: invoke validates in a fixed precedence: an unparseable body gives
\* 400 INVALID_REQUEST; else an absent tool name 400 MISSING_TOOL; else an
\* unrecognized tool name 404 UNKNOWN_TOOL whatever the arguments; else an absent
\* airport_code or one that is not exactly 3 characters 400 INVALID_ARGUMENTS;
\* only otherwise is the weather service called and {tool, result} returned
\* with status 200.
C6_InvokePrecedence ==
    last.op = "mcp_tool_invoke" =>
        /\ <<last.status, ErrorCode(last.body)>> = ExpectedInvokeOutcome(last.request)
        /\ last.status = 200 =>
               /\ DOMAIN last.body = {"tool", "result"}
               /\ last.body.tool = JStr(WeatherToolName)
               /\ last.rule_calls + last.advisor_calls > 0
        /\ last.status # 200 => last.rule_calls + last.advisor_calls = 0

\* The weather tool has been requested with arguments that are no object, and
\* the request has ended in an unhandled AttributeError.
C6_StringArgumentsUnhandled ==
    /\ last.op = "mcp_tool_invoke"
    /\ last.request = Doc(JObj([tool |-> JStr(WeatherToolName),
                                arguments |-> JChars(DEL)]))
    /\ last.unhandled
    /\ last.status = 500

(***************************************************************************)
(* Properties of the call log                                              *)
(***************************************************************************)
AgentViews == {"gemini_cost_agent", "compliance_agent", "ops_agent"}

AgentNameOf(op) ==
    CASE op = "gemini_cost_agent" -> GeminiAgentName
      [] op = "compliance_agent" -> ComplianceAgentName
      [] op = "ops_agent" -> OpsAgentName

\* What the view of the call `call` answers to the same request, with the same
\* advisor outcome, when the log store accepts the write.
AnswerWhenLoggingSucceeds(call) ==
    CASE call.op = "gemini_cost_agent" ->
             gemini_cost_agent_result(<<>>, config.gemini_key, call.request,
                                      call.outcome, TRUE).last
      [] call.op = "compliance_agent" ->
             compliance_agent_result(<<>>, call.request, TRUE).last
      [] call.op = "ops_agent" ->
             ops_agent_result(<<>>, call.request, TRUE).last

\* C7: a failure to persist the call log never affects the decision response:
\* when creating the log entry raises, each of the gemini-cost, compliance and
\* ops endpoints still returns status 200 with the payload it returns when
\* logging succeeds.
C7_LogFailureInvisible ==
    (last.op \in AgentViews /\ last.log_calls = 1 /\ ~last.store_ok) =>
        /\ ~last.unhandled
        /\ last.status = 200
        /\ AnswerWhenLoggingSucceeds(last).status = 200
        /\ last.body = AnswerWhenLoggingSucceeds(last).body

\* The cost endpoint has answered with the advisor's decision while the log
\* store refused the write.
C7_LogFailureReached ==
    /\ last.op = "gemini_cost_agent"
    /\ last.log_calls = 1
    /\ ~last.store_ok
    /\ last.path = "advisor"
    /\ last.status = 200

\* C8 as stated: whenever a decision facade (cost, compliance, ops or weather)
\* has produced a response and the log store accepts writes, the newest log
\* entry holds that response.
C8_EveryDecisionLogged ==
    (/\ last.op \in AgentViews \cup {"mcp_tool_invoke"}
     /\ last.status = 200
     /\ last.store_ok) =>
        /\ log # <<>>
        /\ log[Len(log)].response_payload =
               IF last.op = "mcp_tool_invoke" THEN last.body.result.o ELSE last.body

\* C8, amended: whenever the cost, compliance or ops view has produced a
\* decision and the log store accepts writes, exactly one entry holding the
\* agent name, the request and that response is appended to the log; an
\* invocation of the weather tool appends nothing.
C8_AgentDecisionsLogged ==
    [][/\ (last'.op \in AgentViews /\ last'.status = 200 /\ last'.store_ok) =>
              log' = Append(log, [agent_name |-> AgentNameOf(last'.op),
                                  request_payload |-> last'.request,
                                  response_payload |-> last'.body])
       /\ last'.op \in {"mcp_tool_invoke", "mcp_capabilities"} => log' = log]_vars

\* A compliance decision has been logged after a cost decision.
C8_SecondEntryReached ==
    /\ Len(log) = 2
    /\ log[1].agent_name = GeminiAgentName
    /\ log[2].agent_name = ComplianceAgentName
    /\ last.op = "compliance_agent"
    /\ last.store_ok
    /\ log[2].response_payload = last.body

(***************************************************************************)
(* Properties of the weather tool                                          *)
(***************************************************************************)
\* C11: when the weather advisor signals failure, the weather decision for a
\* code in {DEL, BOM, CCU, BLR} is severity HIGH, duration 4.0, risk HIGH,
\* source "v2", and for any other code severity MEDIUM, duration 2.0, risk
\* MEDIUM, source "v2"; a result carries source "v1" only when the advisor was
\* contacted and answered 200 with a JSON body.
C11_WeatherFallbackValues ==
    last.op = "get_weather_context" =>
        /\ ~last.unhandled
        /\ last.path = "fallback" =>
               last.body =
                   IF StrStrip(StrUpper(last.request)) \in {DEL, BOM, CCU, BLR}
                   THEN [severity |-> JStr("HIGH"),
                         expected_duration_hours |-> JFloat(400),
                         cascading_delay_risk |-> JStr("HIGH"),
                         source |-> JStr("v2")]
                   ELSE [severity |-> JStr("MEDIUM"),
                         expected_duration_hours |-> JFloat(200),
                         cascading_delay_risk |-> JStr("MEDIUM"),
                         source |-> JStr("v2")]
        /\ last.body.source = JStr("v1") =>
               /\ last.path = "advisor"
               /\ last.advisor_calls = 1
               /\ last.outcome.kind = "response"
               /\ last.outcome.status = 200
               /\ last.outcome.body.k = "json"
        /\ last.path = "advisor" => last.body.source = JStr("v1")

\* The provider timed out for CCU, a high-severity airport that is no major hub.
C11_FallbackAfterTimeoutReached ==
    /\ last.op = "get_weather_context"
    /\ last.request = CCU
    /\ last.outcome = [kind |-> "timeout"]
    /\ last.path = "fallback"
    /\ last.body.severity = JStr("HIGH")

(***************************************************************************)
(* Properties of the server                                                *)
(***************************************************************************)
\* No credential is configured for the external source of the endpoint `op`;
\* the compliance and ops endpoints have no external source.
NoCredentialFor(op) ==
    CASE op = "gemini_cost_agent" -> ~config.gemini_key
      [] op = "mcp_tool_invoke" -> ~config.weather_key
      [] OTHER -> TRUE

\* What the endpoint `op` answers to `request` as the first request of a server
\* without credentials, whatever the external sources and the log store would do.
FirstAnswer(op, request, llm, http, store_ok) ==
    CASE op = "gemini_cost_agent" ->
             gemini_cost_agent_result(<<>>, FALSE, request, llm, store_ok).last
      [] op = "compliance_agent" -> compliance_agent_result(<<>>, request, store_ok).last
      [] op = "ops_agent" -> ops_agent_result(<<>>, request, store_ok).last
      [] op = "mcp_tool_invoke" -> mcp_tool_invoke_result(request, FALSE, http)

\* C12: with no external-advisor credential configured, the same decision
\* endpoint (gemini-cost, compliance, ops, weather tool) invoked twice with
\* identical input yields identical decision payloads, whatever was served
\* before or between: every answer is the one a fresh server gives, and two
\* calls in a row with the same input answer the same.
C12_IdempotentWithoutCredentials ==
    /\ [](/\ last.op \in AgentViews \cup {"mcp_tool_invoke"}
          /\ NoCredentialFor(last.op)
          /\ last.status = 200
          => \A llm \in ServerGeminiOutcomes, http \in ServerHttpOutcomes,
                store_ok \in BOOLEAN :
                 /\ FirstAnswer(last.op, last.request, llm, http, store_ok).status = 200
                 /\ FirstAnswer(last.op, last.request, llm, http, store_ok).body
                        = last.body)
    /\ [][/\ last'.op \in AgentViews \cup {"mcp_tool_invoke"}
          /\ NoCredentialFor(last.op)
          /\ last'.op = last.op
          /\ last'.request = last.request
          => /\ last'.status = last.status
             /\ last'.body = last.body]_vars

\* The cost endpoint has answered the same request a second time, without a
\* credential and with the first answer in the log.
C12_SameRequestTwiceReached ==
    /\ last.op = "gemini_cost_agent"
    /\ ~config.gemini_key
    /\ last.status = 200
    /\ Len(log) = 2
    /\ log[1].agent_name = GeminiAgentName
    /\ log[1].request_payload = last.request
    /\ log[2].request_payload = last.request
    /\ log[1].response_payload = last.body

\* A gemini-cost request with a missing, null or negative field, or with more
\* VIPs than passengers.
CostRequestInvalid(request) ==
    IF \E f \in {"delay_hours", "total_passengers", "vip_passengers"} :
           \/ f \notin DOMAIN request.o
           \/ request.o[f].t # "int"
           \/ request.o[f].n < 0
    THEN TRUE
    ELSE request.o.vip_passengers.n > request.o.total_passengers.n

\* C13: a gemini-cost request whose vip_passengers exceeds total_passengers, or
\* with a negative or missing field, is answered with status 400; for it neither
\* the LLM advisor nor the cost fallback rule is invoked and no call log entry
\* is created.
C13_InvalidCostRequestRejected ==
    [][(last'.op = "gemini_cost_agent" /\ CostRequestInvalid(last'.request)) =>
           /\ last'.status = 400
           /\ "error" \in DOMAIN last'.body
           /\ last'.advisor_calls = 0
           /\ last'.rule_calls = 0
           /\ last'.log_calls = 0
           /\ log' = log]_vars

\* The request {delay_hours: 1, total_passengers: 200, vip_passengers: 250} has
\* been rejected by a server whose log already holds an entry.
C13_VipExceedsTotalReached ==
    /\ last.op = "gemini_cost_agent"
    /\ last.request = CostRequest(1, 200, 250)
    /\ last.status = 400
    /\ Len(log) = 1

(***************************************************************************)
(* Properties of the external calls                                        *)
(***************************************************************************)
\* C14: no retries. Within one request the external source is contacted at
\* most once (one generate-content call for cost, one HTTP GET for weather);
\* after that attempt fails the rule engine is invoked exactly once and the
\* external source is not contacted again.
C14_NoRetries ==
    last.op \in {"get_recommendation", "get_weather_context", "mcp_tool_invoke"} =>
        /\ last.advisor_calls <= 1
        /\ last.rule_calls <= 1
        /\ last.path = "fallback" => last.rule_calls = 1
        /\ last.path = "advisor" => (last.advisor_calls = 1 /\ last.rule_calls = 0)
        /\ (/\ last.op = "get_recommendation"
            /\ last.outcome # NoAdvisor
            /\ last.outcome.ctor_failures < 3
            /\ last.outcome.gen.kind = "raise") =>
               (last.advisor_calls = 1 /\ last.rule_calls = 1)
        /\ (/\ last.op \in {"get_weather_context", "mcp_tool_invoke"}
            /\ last.outcome # NoAdvisor
            /\ last.outcome.kind \in {"timeout", "request_error"}) =>
               (last.advisor_calls = 1 /\ last.rule_calls = 1)

\* generate_content has raised and the cost rule has answered.
C14_FailedAttemptReached ==
    /\ last.op = "get_recommendation"
    /\ last.outcome = [ctor_failures |-> 0, gen |-> RaisingCall]
    /\ last.advisor_calls = 1
    /\ last.rule_calls = 1
    /\ last.path = "fallback"

\* `v` is a number that compares as the indicator says.
NumberAbove(v, n) == v.t \in {"int", "float"} /\ Hundredths(v) > 100 * n
NumberBelow(v, n) == v.t \in {"int", "float"} /\ Hundredths(v) < 100 * n

\* The HIGH and the MEDIUM indicators of a weather report: the upper-cased
\* condition, the lower-cased description, the wind speed and the visibility.
HighIndicator(report) ==
    \/ StrContains(report.condition.c, <<"T", "H", "U", "N", "D", "E", "R", "S", "T", "O", "R", "M">>)
    \/ StrContains(report.condition.c, <<"E", "X", "T", "R", "E", "M", "E">>)
    \/ StrContains(report.description.c, <<"h", "e", "a", "v", "y">>)
    \/ StrContains(report.description.c, <<"s", "e", "v", "e", "r", "e">>)
    \/ NumberAbove(report.wind_speed_ms, 15)
    \/ NumberBelow(report.visibility_m, 1000)
MediumIndicator(report) ==
    \/ StrContains(report.condition.c, <<"R", "A", "I", "N">>)
    \/ StrContains(report.condition.c, <<"S", "N", "O", "W">>)
    \/ StrContains(report.condition.c, <<"D", "R", "I", "Z", "Z", "L", "E">>)
    \/ NumberAbove(report.wind_speed_ms, 8)
    \/ NumberBelow(report.visibility_m, 5000)

\* C15: weather severity is derived with first-match-wins priority: HIGH if a
\* HIGH indicator holds (condition THUNDERSTORM or EXTREME, description with
\* "heavy" or "severe", wind > 15, visibility < 1000); otherwise MEDIUM if a
\* MEDIUM indicator holds (condition RAIN, SNOW or DRIZZLE, wind > 8,
\* visibility < 5000); otherwise LOW. A HIGH indicator overrides every MEDIUM
\* one and the boundary values 15, 8, 1000 and 5000 trigger nothing.
C15_SeverityPriority ==
    (last.op = "get_weather_context" /\ last.path = "advisor") =>
        last.body.severity =
            IF HighIndicator(last.body.raw_weather.o) THEN JStr("HIGH")
            ELSE IF MediumIndicator(last.body.raw_weather.o) THEN JStr("MEDIUM")
            ELSE JStr("LOW")

\* Wind 15 with visibility 1000 under a clear sky has been rated: both HIGH
\* boundaries are met exactly, and the MEDIUM checks decide.
C15_HighBoundariesReached ==
    /\ last.op = "get_weather_context"
    /\ last.path = "advisor"
    /\ last.body.raw_weather.o.condition = JChars(<<"C", "L", "E", "A", "R">>)
    /\ last.body.raw_weather.o.wind_speed_ms = JInt(15)
    /\ last.body.raw_weather.o.visibility_m = JInt(1000)
    /\ last.body.severity = JStr("MEDIUM")

\* The levels in their order.
LevelRank(level) ==
    CASE level = JStr("LOW") -> 1
      [] level = JStr("MEDIUM") -> 2
      [] level = JStr("HIGH") -> 3

\* C16: on advisor success the derived fields follow the severity:
\* expected_duration_hours is 4.0 for HIGH, 2.0 for MEDIUM and 0.5 for LOW;
\* cascading_delay_risk is HIGH for HIGH, MEDIUM for MEDIUM at a major hub
\* (DEL, BOM, BLR, MAA), LOW for MEDIUM elsewhere and LOW for LOW; so the risk
\* level never exceeds the severity level.
C16_DerivedFields ==
    (last.op = "get_weather_context" /\ last.path = "advisor") =>
        /\ last.body.severity \in {JStr("HIGH"), JStr("MEDIUM"), JStr("LOW")}
        /\ last.body.expected_duration_hours =
               CASE last.body.severity = JStr("HIGH") -> JFloat(400)
                 [] last.body.severity = JStr("MEDIUM") -> JFloat(200)
                 [] last.body.severity = JStr("LOW") -> JFloat(50)
        /\ last.body.cascading_delay_risk =
               CASE last.body.severity = JStr("HIGH") -> JStr("HIGH")
                 [] last.body.severity = JStr("MEDIUM") ->
                        IF StrStrip(StrUpper(last.request)) \in {DEL, BOM, BLR, MAA}
                        THEN JStr("MEDIUM")
                        ELSE JStr("LOW")
                 [] last.body.severity = JStr("LOW") -> JStr("LOW")
        /\ LevelRank(last.body.cascading_delay_risk) <= LevelRank(last.body.severity)

\* A MEDIUM severity at MAA, a major hub outside the high-severity airports.
C16_MediumAtHubReached ==
    /\ last.op = "get_weather_context"
    /\ last.path = "advisor"
    /\ last.request = MAA
    /\ last.body.severity = JStr("MEDIUM")
    /\ last.body.cascading_delay_risk = JStr("MEDIUM")

\* The weather advisor was not asked, or was asked and the request failed: no
\* credential, no city for the code, a timeout, a network error, a status other
\* than 200.
WeatherRequestFailed(call) ==
    \/ ~config.weather_key
    \/ StrStrip(StrUpper(call.request)) \notin {DEL, BOM, CCU, BLR, MAA, HYD, COK, GOI}
    \/ call.outcome.kind \in {"timeout", "request_error"}
    \/ call.outcome.status # 200

\* The expected fields that the JSON object `doc` lacks.
MissingWeatherFields(doc) == {"weather", "wind", "visibility"} \ DOMAIN doc.o

SameOutcome(call) == IF call.outcome = NoAdvisor THEN RainReply ELSE call.outcome

\* C18: for every invoke request that passes validation, the airport code that
\* the city lookup and the fallback rule receive, upper-cased and stripped by
\* the service, is exactly 3 characters long; and two requests whose codes
\* differ only in letter case receive the same result under the same advisor
\* outcome.
C18_ThreeCharacterCode ==
    (last.op = "mcp_tool_invoke" /\ last.status = 200) =>
        /\ Len(WeatherDisruptionService_get_weather_context(
                   RequestedAirportCode(last.request).c, config.weather_key,
                   SameOutcome(last)).code) = 3
        /\ \A other \in AirportCodeInputs :
               StrUpper(other) = StrUpper(RequestedAirportCode(last.request).c) =>
                   mcp_tool_invoke_result(WeatherRequest(other), config.weather_key,
                                          SameOutcome(last)).body = last.body

\* The code "DE " has passed validation and the fallback rule has decided for
\* the two-character code "DE".
C18_PaddedCodeAcceptedReached ==
    /\ last.op = "mcp_tool_invoke"
    /\ last.request = WeatherRequest(<<"D", "E", " ">>)
    /\ last.status = 200
    /\ last.path = "fallback"
    /\ last.body.result.o.severity = JStr("MEDIUM")

(***************************************************************************)
(* The concurrent specification: requests to the three agent views served  *)
(* by concurrent workers, with a working log store. A view reads nothing   *)
(* shared before it logs, so a request takes three steps: the validation   *)
(* and the decision (views.py 46-70), the insert of the log entry          *)
(* (views.py 21-31, one INSERT in its own transaction), and the return of  *)
(* the response (views.py 82). `pending` maps each worker to its request.  *)
(***************************************************************************)
MaxRequests == 2     \* the concurrent workers, each serving one request

Workers == 1..MaxRequests

IdleWorker == [pc |-> "idle"]

\* The requests of the concurrent specification: one accepted request for each
\* view and one that is rejected.
ConcurrentCalls ==
    {Call("gemini_cost_agent", CostRequest(1, 60, 10), GoodReply),
     Call("gemini_cost_agent", CostRequest(1, 200, 250), GoodReply),
     Call("compliance_agent", JObj([delay_hours |-> JInt(3)]), NoAdvisor),
     Call("ops_agent", JObj(EmptyDict), NoAdvisor)}

\* The AGENT_NAME a view logs under.
ViewAgentName(op) ==
    CASE op = "gemini_cost_agent" -> GeminiAgentName
      [] op = "compliance_agent" -> ComplianceAgentName
      [] op = "ops_agent" -> OpsAgentName

\* What a view has decided when it reaches its log statement, or its 400.
ViewDecision(op, request, llm) ==
    CASE op = "gemini_cost_agent" ->
             gemini_cost_agent_result(<<>>, config.gemini_key, request, llm, TRUE).last
      [] op = "compliance_agent" -> compliance_agent_result(<<>>, request, TRUE).last
      [] op = "ops_agent" -> ops_agent_result(<<>>, request, TRUE).last

\* A worker takes a request, validates it and computes the decision.
view_decide(w, call) ==
    /\ pending[w].pc = "idle"
    /\ pending' = [pending EXCEPT ![w] =
           Let(ViewDecision(call.op, call.request, call.outcome), LAMBDA decision :
               [pc |-> IF decision.status = 200 THEN "log" ELSE "respond",
                decision |-> decision, entry |-> 0])]
    /\ UNCHANGED <<config, log, last>>

\* The worker's _log_agent_call inserts its entry.
view_log(w) ==
    /\ pending[w].pc = "log"
    /\ log' = log_agent_call(log, ViewAgentName(pending[w].decision.op),
                             pending[w].decision.request, pending[w].decision.body,
                             TRUE).table
    /\ pending' = [pending EXCEPT ![w].pc = "respond", ![w].entry = Len(log')]
    /\ UNCHANGED <<config, last>>

\* The worker returns its response.
view_respond(w) ==
    /\ pending[w].pc = "respond"
    /\ last' = pending[w].decision
    /\ pending' = [pending EXCEPT ![w].pc = "done"]
    /\ UNCHANGED <<config, log>>

InitConcurrent ==
    /\ config \in [gemini_key : BOOLEAN, weather_key : BOOLEAN]
    /\ log = <<>>
    /\ last = InitCall
    /\ pending = [w \in Workers |-> IdleWorker]

NextConcurrent ==
    \/ \E w \in Workers, call \in ConcurrentCalls : view_decide(w, call)
    \/ \E w \in Workers : view_log(w)
    \/ \E w \in Workers : view_respond(w)

SpecConcurrent == InitConcurrent /\ [][NextConcurrent]_vars


(***************************************************************************)
(* Properties of the log under concurrent requests                         *)
(***************************************************************************)
\* The workers whose request was decided with status 200 and has been logged.
LoggedWorkers ==
    {w \in Workers : pending[w].pc \in {"respond", "done"} /\ pending[w].decision.status = 200}

\* C19: under any interleaving of concurrent requests to the gemini-cost,
\* compliance and ops endpoints with a working log store, the call log is
\* append-only: a step leaves it alone or adds one entry at its end, so that
\* the entries of other requests are never modified or removed; and each
\* request answered with status 200 has added exactly one entry, whose agent
\* name is that endpoint's agent and whose response payload is the body
\* returned to that request's caller.
C19_ConcurrentLogAppendOnly ==
    /\ [][\/ log' = log
          \/ /\ Len(log') = Len(log) + 1
             /\ SubSeq(log', 1, Len(log)) = log]_vars
    /\ [](Len(log) = Cardinality(LoggedWorkers))
    /\ [](\A w \in LoggedWorkers :
              /\ pending[w].entry \in 1..Len(log)
              /\ log[pending[w].entry] =
                     [agent_name |-> AgentNameOf(pending[w].decision.op),
                      request_payload |-> pending[w].decision.request,
                      response_payload |-> pending[w].decision.body]
              /\ \A v \in LoggedWorkers : pending[v].entry = pending[w].entry => v = w)
    /\ [][\A w \in Workers :
              (pending[w].pc = "respond" /\ pending'[w].pc = "done") =>
                  /\ log' = log
                  /\ last'.status = 200 =>
                         /\ w \in LoggedWorkers
                         /\ log[pending[w].entry].response_payload = last'.body
                         /\ log[pending[w].entry].agent_name = AgentNameOf(last'.op)
                  /\ last'.status # 200 => pending[w].entry = 0]_vars

\* Two requests have been answered with status 200, and the second worker's
\* entry was inserted before the first worker's.
C19_InterleavedEntriesReached ==
    /\ pending[1].pc = "done"
    /\ pending[2].pc = "done"
    /\ pending[1].entry = 2
    /\ pending[2].entry = 1
    /\ log[1].agent_name # log[2].agent_name

====
